---- MODULE Spec2Model ----
(***************************************************************************)
(* Model of the candidate duplicate detection of ma-election-db:           *)
(*   src/find_name_variations.py  normalize_name,                          *)
(*       names_match_with_abbreviation, find_consecutive_winner_duplicates,*)
(*       find_same_district_duplicates, combine_results, main              *)
(*   src/find_dup_candidates.py   main, special_cases, combined_row_info,  *)
(*       potential_duplicates, transform_for_report                        *)
(*                                                                         *)
(* A Python str is a sequence of one-character strings; a pandas DataFrame *)
(* is a sequence of records (its rows in order), each row carrying its     *)
(* index label in the field "label" where the code depends on it.          *)
(***************************************************************************)
EXTENDS Integers, Sequences, FiniteSets, TLC

VARIABLES
    pc,                 \* position in the script that is being run
    name1, name2,       \* arguments of the name functions
    norm_once,          \* normalize_name(name1)
    norm_twice,         \* normalize_name(normalize_name(name1))
    match_12,           \* names_match_with_abbreviation(name1, name2)
    match_21,           \* names_match_with_abbreviation(name2, name1)
    consecutive_df,     \* find_name_variations.main: the consecutive-winner detections
    same_district_df,   \* find_name_variations.main: the same-district detections
    results,            \* find_name_variations.main: combine_results(...)
    output,             \* find_name_variations.main: the suggested id mapping
    csv,                \* find_dup_candidates.main: the rows of the candidates file
    cand_elecs,         \* find_dup_candidates.main: the rows sorted
    cands,              \* find_dup_candidates.main: one row per candidate_id
    cand_spelling_dups, \* find_dup_candidates.main: potential_duplicates(cands)
    special_dups,       \* find_dup_candidates.main: special_cases(cands)
    dups,               \* find_dup_candidates.main: possible-candidate-dupes
    rep_dups,           \* find_dup_candidates.main: reported-duplicates
    general_election,   \* the database: table general_election
    election_candidate  \* the database: table election_candidate

nameVars == <<name1, name2, norm_once, norm_twice, match_12, match_21>>
mergeVars == <<consecutive_df, same_district_df, results, output>>
dupVars == <<csv, cand_elecs, cands, cand_spelling_dups, special_dups, dups, rep_dups>>

dbVars == <<general_election, election_candidate>>

vars == <<pc, nameVars, mergeVars, dupVars, dbVars>>

(***************************************************************************)
(* Bounds of the model.                                                    *)
(***************************************************************************)
\* longest string given to normalize_name
MaxLen == 4
\* most whitespace-separated tokens in a name given to the name matcher
MaxTokens == 3
\* most rows of the consecutive-winner table given to combine_results
MaxConsecutive == 2
\* most rows of the same-district table given to combine_results
MaxSameDistrict == 2
\* most rows of the candidates file read by find_dup_candidates.main
MaxRows == 3

(***************************************************************************)
(* Characters.  "I_DOT" is U+0130 (capital I with dot above); Python's     *)
(* str.lower() turns it into "i" followed by U+0307 (combining dot above, *)
(* "COMB_DOT"), and U+0307 is neither a word character nor whitespace.     *)
(***************************************************************************)
LowerLetters == <<"a","b","c","d","e","f","g","h","i","j","k","l","m",
                  "n","o","p","q","r","s","t","u","v","w","x","y","z">>
UpperLetters == <<"A","B","C","D","E","F","G","H","I","J","K","L","M",
                  "N","O","P","Q","R","S","T","U","V","W","X","Y","Z">>

Range(s) == {s[i] : i \in DOMAIN s}

IndexOf(c, s) == CHOOSE i \in DOMAIN s : s[i] = c

\* the missing value (None / NaN); pd.isna is true of it only
NaN == <<"NaN">>

isna(x) == x = NaN

\* \s of the regular expressions, str.strip() and str.split()
IsSpace(c) == c \in {" ", "\t"}

\* \w of the regular expressions: alphanumeric or underscore
IsWord(c) ==
    \/ c \in Range(LowerLetters)
    \/ c \in Range(UpperLetters)
    \/ c \in {"0", "1", "_", "I_DOT"}

\* str.lower() of one character: a string, not always of length one
LowerChar(c) ==
    IF c \in Range(UpperLetters) THEN <<LowerLetters[IndexOf(c, UpperLetters)]>>
    ELSE IF c = "I_DOT" THEN <<"i", "COMB_DOT">>
    ELSE <<c>>

\* str.upper() of one character
UpperChar(c) ==
    IF c \in Range(LowerLetters) THEN <<UpperLetters[IndexOf(c, LowerLetters)]>>
    ELSE <<c>>

RECURSIVE lower(_)
lower(s) == IF s = <<>> THEN <<>> ELSE LowerChar(Head(s)) \o lower(Tail(s))

\* re.sub(r'[^\w\s]', '', s)
RECURSIVE RemovePunctuation(_)
RemovePunctuation(s) ==
    IF s = <<>> THEN <<>>
    ELSE IF IsWord(Head(s)) \/ IsSpace(Head(s))
         THEN <<Head(s)>> \o RemovePunctuation(Tail(s))
         ELSE RemovePunctuation(Tail(s))

\* re.sub(r'\s+', ' ', s): every maximal run of whitespace becomes one space
RECURSIVE CollapseSpaces(_)
CollapseSpaces(s) ==
    IF s = <<>> THEN <<>>
    ELSE IF IsSpace(Head(s))
         THEN IF Len(s) > 1 /\ IsSpace(s[2])
              THEN CollapseSpaces(Tail(s))
              ELSE <<" ">> \o CollapseSpaces(Tail(s))
         ELSE <<Head(s)>> \o CollapseSpaces(Tail(s))

RECURSIVE lstrip(_)
lstrip(s) ==
    IF s # <<>> /\ IsSpace(Head(s)) THEN lstrip(Tail(s)) ELSE s

RECURSIVE rstrip(_)
rstrip(s) ==
    IF s # <<>> /\ IsSpace(s[Len(s)]) THEN rstrip(SubSeq(s, 1, Len(s) - 1)) ELSE s

strip(s) == rstrip(lstrip(s))

\* str.split(): the maximal runs of non-whitespace, in order
RECURSIVE SplitFrom(_, _)
SplitFrom(s, word) ==
    IF s = <<>> THEN (IF word = <<>> THEN <<>> ELSE <<word>>)
    ELSE IF IsSpace(Head(s))
         THEN (IF word = <<>> THEN <<>> ELSE <<word>>) \o SplitFrom(Tail(s), <<>>)
         ELSE SplitFrom(Tail(s), Append(word, Head(s)))

split(s) == SplitFrom(s, <<>>)

(***************************************************************************)
(* normalize_name                                                          *)
(***************************************************************************)
normalize_name(name) ==
    IF isna(name) THEN <<>>
    ELSE lower(strip(CollapseSpaces(RemovePunctuation(name))))

(***************************************************************************)
(* names_match_with_abbreviation                                           *)
(***************************************************************************)
\* {p[0].upper() for p in parts[1:-1] if p}
MidInitials(parts) ==
    {UpperChar(parts[i][1]) : i \in {k \in 2..(Len(parts) - 1) : parts[k] # <<>>}}

\* the subset test in one direction only
OneContainsOtherForward(words1, words2) == words1 \subseteq words2

\* words1.issubset(words2) or words2.issubset(words1)
OneContainsOther(words1, words2) ==
    words1 \subseteq words2 \/ words2 \subseteq words1

names_match_with_abbreviation(n1, n2) ==
    IF isna(n1) \/ isna(n2) THEN FALSE
    ELSE
      LET norm1  == normalize_name(n1)
          norm2  == normalize_name(n2)
          words1 == Range(split(norm1))
          words2 == Range(split(norm2))
          parts1 == split(n1)
          parts2 == split(n2)
      IN  IF norm1 = norm2 THEN TRUE
          ELSE IF OneContainsOther(words1, words2) THEN TRUE
          ELSE IF /\ Len(parts1) >= 2
                  /\ Len(parts2) >= 2
                  /\ normalize_name(parts1[1]) = normalize_name(parts2[1])
                  /\ normalize_name(parts1[Len(parts1)]) = normalize_name(parts2[Len(parts2)])
               THEN IF Len(parts1) # Len(parts2) THEN TRUE
                    ELSE MidInitials(parts1) = MidInitials(parts2)
          ELSE FALSE

(***************************************************************************)
(* Inputs of the name functions.                                           *)
(***************************************************************************)
\* characters of the strings given to normalize_name
Alphabet == {"a", "B", ".", " ", "I_DOT"}

Strings == UNION {[1..k -> Alphabet] : k \in 0..MaxLen}

\* tokens of the names given to names_match_with_abbreviation
TokenPool == {<<"D","a","n">>, <<"J",".">>, <<"j","o">>, <<".">>}

RECURSIVE JoinTokens(_)
JoinTokens(tokens) ==
    IF tokens = <<>> THEN <<>>
    ELSE IF Len(tokens) = 1 THEN Head(tokens)
    ELSE Head(tokens) \o <<" ">> \o JoinTokens(Tail(tokens))

TokenNames ==
    {JoinTokens(t) : t \in UNION {[1..k -> TokenPool] : k \in 0..MaxTokens}}

\* the value of a variable of a script that is not running
None == <<"None">>

NamesIdle ==
    /\ name1 = None
    /\ name2 = None
    /\ norm_once = None
    /\ norm_twice = None
    /\ match_12 = None
    /\ match_21 = None

MergeIdle ==
    /\ consecutive_df = None
    /\ same_district_df = None
    /\ results = None
    /\ output = None

DbIdle ==
    /\ general_election = None
    /\ election_candidate = None

DupIdle ==
    /\ csv = None
    /\ cand_elecs = None
    /\ cands = None
    /\ cand_spelling_dups = None
    /\ special_dups = None
    /\ dups = None
    /\ rep_dups = None

(***************************************************************************)
(* normalize_name applied to a string, then to its own result.             *)
(***************************************************************************)
InitNormalize ==
    /\ pc = "normalize"
    /\ name1 \in Strings \cup {NaN}
    /\ name2 = None
    /\ norm_once = None
    /\ norm_twice = None
    /\ match_12 = None
    /\ match_21 = None
    /\ MergeIdle
    /\ DupIdle
    /\ DbIdle

NormalizeOnce ==
    /\ pc = "normalize"
    /\ norm_once' = normalize_name(name1)
    /\ pc' = "renormalize"
    /\ UNCHANGED <<name1, name2, norm_twice, match_12, match_21, mergeVars, dupVars, dbVars>>

NormalizeTwice ==
    /\ pc = "renormalize"
    /\ norm_twice' = normalize_name(norm_once)
    /\ pc' = "normalized"
    /\ UNCHANGED <<name1, name2, norm_once, match_12, match_21, mergeVars, dupVars, dbVars>>

NextNormalize == NormalizeOnce \/ NormalizeTwice

SpecNormalize == InitNormalize /\ [][NextNormalize]_vars

(***************************************************************************)
(* names_match_with_abbreviation applied to a pair of names in both orders.*)
(***************************************************************************)
InitMatch ==
    /\ pc = "match"
    /\ name1 \in TokenNames \cup {NaN}
    /\ name2 \in TokenNames \cup {NaN}
    /\ norm_once = None
    /\ norm_twice = None
    /\ match_12 = None
    /\ match_21 = None
    /\ MergeIdle
    /\ DupIdle
    /\ DbIdle

MatchForward ==
    /\ pc = "match"
    /\ match_12' = names_match_with_abbreviation(name1, name2)
    /\ pc' = "match_swapped"
    /\ UNCHANGED <<name1, name2, norm_once, norm_twice, match_21, mergeVars, dupVars, dbVars>>

MatchSwapped ==
    /\ pc = "match_swapped"
    /\ match_21' = names_match_with_abbreviation(name2, name1)
    /\ pc' = "matched"
    /\ UNCHANGED <<name1, name2, norm_once, norm_twice, match_12, mergeVars, dupVars, dbVars>>

NextMatch == MatchForward \/ MatchSwapped

SpecMatch == InitMatch /\ [][NextMatch]_vars

(***************************************************************************)
(* C8: names_match_with_abbreviation is symmetric, f(a, b) = f(b, a) for   *)
(* every pair of names, and it is false whenever an argument is missing.   *)
(***************************************************************************)
MatchIsSymmetric ==
    pc = "matched" =>
        /\ match_12 = match_21
        /\ (isna(name1) \/ isna(name2)) => (match_12 = FALSE /\ match_21 = FALSE)

\* a match decided by token containment between names of different token counts
MatchIsSymmetricWitness ==
    /\ pc = "matched"
    /\ match_12 = TRUE
    /\ Len(split(name1)) = 1
    /\ Len(split(name2)) = 2
    /\ normalize_name(name1) # normalize_name(name2)

(***************************************************************************)
(* C9: normalize_name is idempotent, its result holds only lower-case word *)
(* characters separated by single spaces with no space at either end, and  *)
(* the result for a missing input is the empty string.                     *)
(***************************************************************************)
IsLowerWordChar(c) == IsWord(c) /\ LowerChar(c) = <<c>>

IsNormalForm(s) ==
    /\ \A i \in DOMAIN s : s[i] = " " \/ IsLowerWordChar(s[i])
    /\ \A i \in DOMAIN s : s[i] = " " => (i > 1 /\ i < Len(s) /\ s[i + 1] # " ")

NormalizeIsIdempotent ==
    /\ pc \in {"renormalize", "normalized"} =>
          /\ IsNormalForm(norm_once)
          /\ isna(name1) => norm_once = <<>>
    /\ pc = "normalized" => norm_twice = norm_once

(***************************************************************************)
(* combine_results and the mapping of find_name_variations.main.           *)
(***************************************************************************)
\* candidate ids of the detections given to combine_results
CandidateIds == {1, 2, 3}

DanJRyan      == <<"D","a","n"," ","J","."," ","R","y","a","n">>
DanJosephRyan == <<"D","a","n"," ","J","o","s","e","p","h"," ","R","y","a","n">>
AnnRyan       == <<"A","n","n"," ","R","y","a","n">>

\* the display name recorded for a candidate id
CandidateName == <<DanJRyan, DanJosephRyan, AnnRyan>>

\* confidence_order = {'high': 2, 'medium': 1}
confidence_order(confidence) == IF confidence = "high" THEN 2 ELSE 1

\* the pair key without the sort: (id_1, id_2) as it stands in the row
id_pair_unsorted(row) == <<row.id_1, row.id_2>>

\* tuple(sorted([row['id_1'], row['id_2']]))
id_pair(row) ==
    IF row.id_1 <= row.id_2 THEN <<row.id_1, row.id_2>> ELSE <<row.id_2, row.id_1>>

\* consecutive_df[[...]] with detection_method and confidence set
ConsecutiveResults(df) ==
    [i \in DOMAIN df |->
        [id_1 |-> df[i].id_1, name_1 |-> df[i].name_1,
         id_2 |-> df[i].id_2, name_2 |-> df[i].name_2,
         office |-> df[i].office, district_id |-> df[i].district_id,
         detection_method |-> "consecutive_winner", confidence |-> "high"]]

\* same_district_df[[...]] with district renamed, detection_method and confidence set
SameDistrictResults(df) ==
    [i \in DOMAIN df |->
        [id_1 |-> df[i].id_1, name_1 |-> df[i].name_1,
         id_2 |-> df[i].id_2, name_2 |-> df[i].name_2,
         office |-> df[i].office, district_id |-> df[i].district,
         detection_method |-> "same_district", confidence |-> "medium"]]

\* pd.concat([...], ignore_index=True): the rows in order, labelled 0, 1, ...
Concat(first, second) ==
    LET rows == first \o second
    IN  [i \in DOMAIN rows |->
            [label |-> i - 1,
             id_1 |-> rows[i].id_1, name_1 |-> rows[i].name_1,
             id_2 |-> rows[i].id_2, name_2 |-> rows[i].name_2,
             office |-> rows[i].office, district_id |-> rows[i].district_id,
             detection_method |-> rows[i].detection_method,
             confidence |-> rows[i].confidence]]

\* every sequence that lists each element of the set S exactly once
RECURSIVE Orderings(_)
Orderings(S) ==
    IF S = {} THEN {<<>>}
    ELSE UNION {{<<x>> \o rest : rest \in Orderings(S \ {x})} : x \in S}

\* the rows of df in order, restricted to those that satisfy keep
RECURSIVE SelectRows(_, _)
SelectRows(df, keep) ==
    IF df = <<>> THEN <<>>
    ELSE IF Head(df) \in keep THEN <<Head(df)>> \o SelectRows(Tail(df), keep)
         ELSE SelectRows(Tail(df), keep)

\* sort_values('confidence_score', ascending=False): a single sort key, so
\* pandas sorts with the default kind 'quicksort', which is not stable; rows of
\* equal score come out in an order the sort does not determine.
SortByConfidenceScore(df) ==
    LET high   == {r \in Range(df) : confidence_order(r.confidence) = 2}
        medium == {r \in Range(df) : confidence_order(r.confidence) = 1}
    IN  {h \o m : h \in Orderings(high), m \in Orderings(medium)}

\* drop_duplicates(subset='id_pair', keep='first')
RECURSIVE DropDuplicatePairs(_, _)
DropDuplicatePairs(df, seen) ==
    IF df = <<>> THEN <<>>
    ELSE IF id_pair(Head(df)) \in seen
         THEN DropDuplicatePairs(Tail(df), seen)
         ELSE <<Head(df)>> \o DropDuplicatePairs(Tail(df), seen \cup {id_pair(Head(df))})

\* order of the confidence strings under Python's string comparison
ConfidenceText(confidence) ==
    IF confidence = "high" THEN IndexOf("h", LowerLetters)
    ELSE IndexOf("m", LowerLetters)

\* row a is placed before row b by sort_values(['confidence', 'id_2'],
\* ascending=[False, False])
SortsBefore(a, b) ==
    \/ ConfidenceText(a.confidence) > ConfidenceText(b.confidence)
    \/ /\ a.confidence = b.confidence
       /\ a.id_2 > b.id_2

\* the sort on several keys is stable: rows of equal keys keep their order
RECURSIVE InsertRow(_, _)
InsertRow(sorted, row) ==
    IF sorted = <<>> THEN <<row>>
    ELSE IF SortsBefore(row, Head(sorted)) THEN <<row>> \o sorted
         ELSE <<Head(sorted)>> \o InsertRow(Tail(sorted), row)

RECURSIVE SortByConfidenceAndId2(_)
SortByConfidenceAndId2(df) ==
    IF df = <<>> THEN <<>>
    ELSE InsertRow(SortByConfidenceAndId2(SubSeq(df, 1, Len(df) - 1)), df[Len(df)])

\* the tables combine_results can return for two detection tables
combine_results(cons_df, same_df) ==
    LET all_results == Concat(ConsecutiveResults(cons_df), SameDistrictResults(same_df))
    IN  {SortByConfidenceAndId2(DropDuplicatePairs(sorted, {})) :
            sorted \in SortByConfidenceScore(all_results)}

\* results[['id_2', 'id_1', 'name_1']] renamed, with the note column
SuggestedMapping(res) ==
    [i \in DOMAIN res |->
        [id_dup |-> res[i].id_2, id_canonical |-> res[i].id_1,
         name_canonical |-> res[i].name_1,
         note |-> <<res[i].detection_method, " - ", res[i].confidence, " confidence">>]]

ConsecutiveRows ==
    {[id_1 |-> a, name_1 |-> CandidateName[a], id_2 |-> b, name_2 |-> CandidateName[b],
      office |-> "State Rep", district_id |-> "7"] :
        <<a, b>> \in {p \in CandidateIds \X CandidateIds : p[1] # p[2]}}

SameDistrictRows ==
    {[id_1 |-> a, name_1 |-> CandidateName[a], id_2 |-> b, name_2 |-> CandidateName[b],
      office |-> "State Rep", district |-> "7th Middlesex"] :
        <<a, b>> \in {p \in CandidateIds \X CandidateIds : p[1] < p[2]}}

\* the consecutive-winner query can return the same pair more than once, in
\* either orientation
ConsecutiveTables == UNION {[1..k -> ConsecutiveRows] : k \in 0..MaxConsecutive}

\* the same-district query groups by (id_1, id_2) and has id_1 < id_2
SameDistrictTables ==
    {t \in UNION {[1..k -> SameDistrictRows] : k \in 0..MaxSameDistrict} :
        \A i, j \in DOMAIN t : i # j => t[i] # t[j]}

InitCombine ==
    /\ pc = "combine"
    /\ NamesIdle
    /\ consecutive_df \in ConsecutiveTables
    /\ same_district_df \in SameDistrictTables
    /\ results = None
    /\ output = None
    /\ DupIdle
    /\ DbIdle

CombineResults ==
    /\ pc = "combine"
    /\ results' \in combine_results(consecutive_df, same_district_df)
    /\ pc' = "format"
    /\ UNCHANGED <<nameVars, dupVars, dbVars, consecutive_df, same_district_df, output>>

FormatMapping ==
    /\ pc = "format"
    /\ output' = SuggestedMapping(results)
    /\ pc' = "saved"
    /\ UNCHANGED <<nameVars, dupVars, dbVars, consecutive_df, same_district_df, results>>

NextCombine == CombineResults \/ FormatMapping

SpecCombine == InitCombine /\ [][NextCombine]_vars

(***************************************************************************)
(* Claims about combine_results and the suggested mapping.                 *)
(***************************************************************************)
\* the labelled rows combine_results deduplicates
AllResults == Concat(ConsecutiveResults(consecutive_df), SameDistrictResults(same_district_df))

\* the unordered pair {id_1, id_2} of a row
PairKey(row) == {row.id_1, row.id_2}

Combined == pc \in {"format", "saved"}

\* the row of a group the merge is to keep: highest rank, then earliest input
Preferred(group) ==
    CHOOSE r \in group :
        \A q \in group \ {r} :
            \/ confidence_order(r.confidence) > confidence_order(q.confidence)
            \/ /\ confidence_order(r.confidence) = confidence_order(q.confidence)
               /\ r.label < q.label

(***************************************************************************)
(* C1: of the input rows that share an unordered pair key the merged       *)
(* result retains exactly one, the one of higher confidence rank, and      *)
(* among rows of equal rank the one that is earlier in the concatenated    *)
(* input.                                                                  *)
(***************************************************************************)
HigherRankThenEarlierRowRetained ==
    Combined =>
        \A r \in Range(AllResults) :
            LET group == {q \in Range(AllResults) : PairKey(q) = PairKey(r)}
            IN  Cardinality(group) >= 2 =>
                    {q \in Range(results) : PairKey(q) = PairKey(r)} = {Preferred(group)}

(***************************************************************************)
(* C2: the result of combine_results has no two rows with the same         *)
(* unordered pair key, and every pair key of the inputs is in the result   *)
(* exactly once.                                                           *)
(***************************************************************************)
OneRowPerPairKey ==
    Combined =>
        /\ \A i, j \in DOMAIN results :
              PairKey(results[i]) = PairKey(results[j]) => i = j
        /\ \A r \in Range(AllResults) :
              Cardinality({i \in DOMAIN results : PairKey(results[i]) = PairKey(r)}) = 1
        /\ \A i \in DOMAIN results : results[i] \in Range(AllResults)

\* both detectors report the pair {1, 2}, in opposite orientations, next to another pair
OneRowPerPairKeyWitness ==
    /\ Combined
    /\ \E i \in DOMAIN consecutive_df, j \in DOMAIN same_district_df :
          /\ consecutive_df[i].id_1 = same_district_df[j].id_2
          /\ consecutive_df[i].id_2 = same_district_df[j].id_1
    /\ Len(results) >= 2
    /\ Len(results) < Len(AllResults)

(***************************************************************************)
(* C3: in the suggested mapping no id of the id_canonical column is also   *)
(* in the id_dup column.                                                   *)
(***************************************************************************)
MappingHasNoChain ==
    pc = "saved" =>
        {output[i].id_canonical : i \in DOMAIN output}
            \cap {output[i].id_dup : i \in DOMAIN output} = {}

(***************************************************************************)
(* C11: the rows combine_results returns are confidence-ranked: every row  *)
(* of confidence 'high' comes before every row of confidence 'medium'.     *)
(***************************************************************************)
HighRowsPrecedeMediumRows ==
    Combined =>
        \A i, j \in DOMAIN results :
            (results[i].confidence = "high" /\ results[j].confidence = "medium") => i < j

(***************************************************************************)
(* find_dup_candidates: fuzz.ratio, computed as fuzzywuzzy does with       *)
(* difflib.SequenceMatcher: the longest matching block, then the blocks to *)
(* its left and to its right.                                              *)
(***************************************************************************)
\* length of the common prefix of a[i..ahi] and b[j..bhi]
RECURSIVE CommonPrefix(_, _, _, _, _, _)
CommonPrefix(a, b, i, j, ahi, bhi) ==
    IF i > ahi \/ j > bhi \/ a[i] # b[j] THEN 0
    ELSE 1 + CommonPrefix(a, b, i + 1, j + 1, ahi, bhi)

\* SequenceMatcher.find_longest_match: <<i, j, k>> with a[i..i+k-1] = b[j..j+k-1],
\* k greatest, then i least, then j least; k = 0 when nothing matches
LongestMatch(a, b, alo, ahi, blo, bhi) ==
    LET blocks == {<<i, j, CommonPrefix(a, b, i, j, ahi, bhi)>> :
                      i \in alo..ahi, j \in blo..bhi}
    IN  IF blocks = {} THEN <<alo, blo, 0>>
        ELSE CHOOSE m \in blocks :
                \A o \in blocks :
                    \/ m[3] > o[3]
                    \/ m[3] = o[3] /\ m[1] < o[1]
                    \/ m[3] = o[3] /\ m[1] = o[1] /\ m[2] <= o[2]

\* sum of the sizes of SequenceMatcher.get_matching_blocks
RECURSIVE MatchingSize(_, _, _, _, _, _)
MatchingSize(a, b, alo, ahi, blo, bhi) ==
    LET m == LongestMatch(a, b, alo, ahi, blo, bhi)
    IN  IF m[3] = 0 THEN 0
        ELSE m[3] + MatchingSize(a, b, alo, m[1] - 1, blo, m[2] - 1)
                  + MatchingSize(a, b, m[1] + m[3], ahi, m[2] + m[3], bhi)

\* int(round(num / den)) with Python's rounding of halves to even
RoundDiv(num, den) ==
    LET q == num \div den
        r == num % den
    IN  IF 2 * r > den THEN q + 1
        ELSE IF 2 * r < den THEN q
        ELSE IF q % 2 = 0 THEN q ELSE q + 1

\* fuzz.ratio: 100 for equal strings, 0 when one is empty, else the rounded
\* percentage 2 * matches / (len(s1) + len(s2))
fuzz_ratio(s1, s2) ==
    IF s1 = s2 THEN 100
    ELSE IF s1 = <<>> \/ s2 = <<>> THEN 0
    ELSE RoundDiv(200 * MatchingSize(s1, s2, 1, Len(s1), 1, Len(s2)), Len(s1) + Len(s2))

(***************************************************************************)
(* find_dup_candidates: the candidate universe                             *)
(***************************************************************************)
\* row a is placed before row b by sort_values(["candidate_id",
\* "election_id"], ascending=False)
CandElecBefore(a, b) ==
    \/ a.candidate_id > b.candidate_id
    \/ a.candidate_id = b.candidate_id /\ a.election_id > b.election_id

RECURSIVE InsertCandElec(_, _)
InsertCandElec(sorted, row) ==
    IF sorted = <<>> THEN <<row>>
    ELSE IF CandElecBefore(row, Head(sorted)) THEN <<row>> \o sorted
         ELSE <<Head(sorted)>> \o InsertCandElec(Tail(sorted), row)

\* the rows sorted on the two keys; the rows keep their labels
RECURSIVE SortCandElecs(_)
SortCandElecs(df) ==
    IF df = <<>> THEN <<>>
    ELSE InsertCandElec(SortCandElecs(SubSeq(df, 1, Len(df) - 1)), df[Len(df)])

\* drop_duplicates("candidate_id"): the first row of every candidate_id
RECURSIVE DropDuplicateCandidates(_, _)
DropDuplicateCandidates(df, seen) ==
    IF df = <<>> THEN <<>>
    ELSE IF Head(df).candidate_id \in seen
         THEN DropDuplicateCandidates(Tail(df), seen)
         ELSE <<Head(df)>>
                \o DropDuplicateCandidates(Tail(df), seen \cup {Head(df).candidate_id})

(***************************************************************************)
(* find_dup_candidates: combined_row_info, potential_duplicates            *)
(***************************************************************************)
combined_row_info(row_1, row_2) ==
    [id_1 |-> row_1.candidate_id, id_2 |-> row_2.candidate_id,
     name_1 |-> row_1.name, name_2 |-> row_2.name,
     office_1 |-> row_1.office, district_1 |-> row_1.district,
     city_town_1 |-> row_1.city_town,
     office_2 |-> row_2.office, district_2 |-> row_2.district,
     city_town_2 |-> row_2.city_town]

\* a row of combined_row_info with the columns ratio, same_person and pref_id
\* that main's concat gives every row; a missing same_person is "NaN", a
\* missing pref_id is the empty set and a pref_id p is {p}
ReportRow(row_1, row_2, ratio, same_person, pref_id) ==
    combined_row_info(row_1, row_2)
        @@ [ratio |-> ratio, same_person |-> same_person, pref_id |-> pref_id]

\* the test of the inner loop without the candidate_id check
IsPotentialDuplicateAnyId(row_1, row_2) ==
    fuzz_ratio(row_1.name, row_2.name) > 90

\* the test of the inner loop: not the same candidate_id, and ratio > 90
IsPotentialDuplicate(row_1, row_2) ==
    /\ row_1.candidate_id # row_2.candidate_id
    /\ fuzz_ratio(row_1.name, row_2.name) > 90

\* for j, row_2 in df.iloc[i+1:].iterrows(), from the row at position q (from 1)
RECURSIVE InnerLoop(_, _, _)
InnerLoop(df, row_1, q) ==
    IF q > Len(df) THEN <<>>
    ELSE (IF IsPotentialDuplicate(row_1, df[q])
          THEN <<ReportRow(row_1, df[q], fuzz_ratio(row_1.name, df[q].name), "NaN", {})>>
          ELSE <<>>)
         \o InnerLoop(df, row_1, q + 1)

\* for i, row_1 in df.iterrows(): i is the LABEL of the row at position p, and
\* df.iloc[i+1:] starts at the position i + 1 counted from 0
RECURSIVE OuterLoop(_, _)
OuterLoop(df, p) ==
    IF p > Len(df) THEN <<>>
    ELSE InnerLoop(df, df[p], df[p].label + 2) \o OuterLoop(df, p + 1)

potential_duplicates(df) == OuterLoop(df, 1)

(***************************************************************************)
(* find_dup_candidates: special_cases                                      *)
(***************************************************************************)
Keating == <<"K","e","a","t","i","n","g">>

\* str.contains: sub occurs in s
Contains(s, sub) ==
    \E i \in 1..(Len(s) - Len(sub) + 1) : SubSeq(s, i, i + Len(sub) - 1) = sub

RECURSIVE InsertByCandidateId(_, _)
InsertByCandidateId(sorted, row) ==
    IF sorted = <<>> THEN <<row>>
    ELSE IF row.candidate_id < Head(sorted).candidate_id THEN <<row>> \o sorted
         ELSE <<Head(sorted)>> \o InsertByCandidateId(Tail(sorted), row)

\* sort_values("candidate_id") of a table with one row per candidate_id
RECURSIVE SortByCandidateId(_)
SortByCandidateId(df) ==
    IF df = <<>> THEN <<>>
    ELSE InsertByCandidateId(SortByCandidateId(SubSeq(df, 1, Len(df) - 1)), df[Len(df)])

RECURSIVE KeatingRows(_)
KeatingRows(df) ==
    IF df = <<>> THEN <<>>
    ELSE IF Contains(Head(df).name, Keating) THEN <<Head(df)>> \o KeatingRows(Tail(df))
         ELSE KeatingRows(Tail(df))

keating_rows(df) == SortByCandidateId(KeatingRows(df))

\* keating_rows.iloc[2] raises IndexError when there are fewer than three rows
SpecialCasesRaises(df) == Len(keating_rows(df)) < 3

special_cases(df) ==
    LET k == keating_rows(df)
    IN  <<ReportRow(k[1], k[3], 100, "yes", {k[3].candidate_id}),
          ReportRow(k[2], k[3], 100, "yes", {k[3].candidate_id})>>

(***************************************************************************)
(* find_dup_candidates: transform_for_report and the report of main        *)
(***************************************************************************)
\* the column suffixes chosen when pref_id is compared with id_2 instead
PrefSuffixSwapped(row) == IF row.pref_id = {row.id_2} THEN 1 ELSE 2

\* pref_suffix: '1' if row['pref_id'] == row['id_1'] else '2'
PrefSuffix(row) == IF row.pref_id = {row.id_1} THEN 1 ELSE 2

TransformRow(row) ==
    IF PrefSuffix(row) = 1
    THEN [id_pref |-> row.id_1, name_pref |-> row.name_1, office_pref |-> row.office_1,
          district_pref |-> row.district_1, city_town_pref |-> row.city_town_1,
          id_dup |-> row.id_2, name_dup |-> row.name_2, office_dup |-> row.office_2,
          district_dup |-> row.district_2, city_town_dup |-> row.city_town_2]
    ELSE [id_pref |-> row.id_2, name_pref |-> row.name_2, office_pref |-> row.office_2,
          district_pref |-> row.district_2, city_town_pref |-> row.city_town_2,
          id_dup |-> row.id_1, name_dup |-> row.name_1, office_dup |-> row.office_1,
          district_dup |-> row.district_1, city_town_dup |-> row.city_town_1]

transform_for_report(df) == [i \in DOMAIN df |-> TransformRow(df[i])]

\* sort_values("same_person", ascending=False): one key, so not stable among
\* the 'yes' rows; the rows without a value come last in their order
SortBySamePerson(df) ==
    LET yes == {r \in Range(df) : r.same_person = "yes"}
    IN  {y \o SelectRows(df, Range(df) \ yes) : y \in Orderings(yes)}

\* query("same_person == 'yes'")
QuerySamePerson(df) == SelectRows(df, {r \in Range(df) : r.same_person = "yes"})

\* drop_duplicates("id_dup")
RECURSIVE DropDuplicateIdDup(_, _)
DropDuplicateIdDup(df, seen) ==
    IF df = <<>> THEN <<>>
    ELSE IF Head(df).id_dup \in seen
         THEN DropDuplicateIdDup(Tail(df), seen)
         ELSE <<Head(df)>> \o DropDuplicateIdDup(Tail(df), seen \cup {Head(df).id_dup})

\* a sequence is in ascending order of id_pref
AscendingIdPref(df) ==
    \A i, j \in DOMAIN df : i < j => df[i].id_pref <= df[j].id_pref

\* sort_values("id_pref"): one key, so not stable among equal id_pref
SortByIdPref(df) == {o \in Orderings(Range(df)) : AscendingIdPref(o)}

\* the tables main can write as reported-duplicates for a table dups
ReportedDuplicates(d) ==
    SortByIdPref(DropDuplicateIdDup(transform_for_report(QuerySamePerson(d)), {}))

(***************************************************************************)
(* find_dup_candidates.main on a candidates file.                          *)
(***************************************************************************)
ElectionIds == {1, 2}

WmKeating    == <<"W","m"," ","K","e","a","t","i","n","g">>
WmDotKeating == <<"W","m","."," ","K","e","a","t","i","n","g">>

CandidateNames == {WmKeating, WmDotKeating, DanJRyan}

\* office, district and city_town of the rows of a candidate id
OfficeOf   == <<"US House", "State Rep", "State Senate">>
DistrictOf == <<"9th Congressional", "7th Middlesex", "Norfolk and Plymouth">>
CityTownOf == <<"Bourne", "Boston", "NaN">>

CsvCells == CandidateIds \X ElectionIds \X CandidateNames

\* the dates elections are held on, as numbers YYYYMMDD
PollingDates == {20161108, 20181106}

\* the election_date of every election_id; the ids are those of the source of
\* the data and need not follow the dates
ElectionCalendars == [ElectionIds -> PollingDates]

\* pd.read_csv: the rows of the file in order, labelled 0, 1, ...
ReadCsv(cells, calendar) ==
    [i \in DOMAIN cells |->
        [label |-> i - 1,
         candidate_id |-> cells[i][1], election_id |-> cells[i][2],
         election_date |-> calendar[cells[i][2]],
         name |-> cells[i][3],
         office |-> OfficeOf[cells[i][1]], district |-> DistrictOf[cells[i][1]],
         city_town |-> CityTownOf[cells[i][1]]]]

\* the files: (candidate_id, election_id) is unique
CsvTables ==
    {ReadCsv(c, calendar) :
        c \in {t \in UNION {[1..k -> CsvCells] : k \in 0..MaxRows} :
                  \A i, j \in DOMAIN t :
                      (t[i][1] = t[j][1] /\ t[i][2] = t[j][2]) => i = j},
        calendar \in ElectionCalendars}

InitDup ==
    /\ pc = "load"
    /\ NamesIdle
    /\ MergeIdle
    /\ DbIdle
    /\ csv \in CsvTables
    /\ cand_elecs = None
    /\ cands = None
    /\ cand_spelling_dups = None
    /\ special_dups = None
    /\ dups = None
    /\ rep_dups = None

\* main, lines 5-7
LoadCandidates ==
    /\ pc = "load"
    /\ cand_elecs' = SortCandElecs(csv)
    /\ cands' = DropDuplicateCandidates(SortCandElecs(csv), {})
    /\ pc' = "spelling"
    /\ UNCHANGED <<nameVars, mergeVars, dbVars, csv, cand_spelling_dups, special_dups, dups, rep_dups>>

\* main, line 8
PotentialDuplicates ==
    /\ pc = "spelling"
    /\ cand_spelling_dups' = potential_duplicates(cands)
    /\ pc' = "special"
    /\ UNCHANGED <<nameVars, mergeVars, dbVars, csv, cand_elecs, cands, special_dups, dups, rep_dups>>

\* main, line 9, when special_cases returns
SpecialCases ==
    /\ pc = "special"
    /\ ~SpecialCasesRaises(cands)
    /\ special_dups' = special_cases(cands)
    /\ pc' = "report"
    /\ UNCHANGED <<nameVars, mergeVars, dbVars, csv, cand_elecs, cands, cand_spelling_dups, dups, rep_dups>>

\* main, line 9, when special_cases raises: the script ends with the exception
SpecialCasesIndexError ==
    /\ pc = "special"
    /\ SpecialCasesRaises(cands)
    /\ pc' = "IndexError"
    /\ UNCHANGED <<nameVars, mergeVars, dupVars, dbVars>>

\* main, lines 10-18
WriteReports ==
    /\ pc = "report"
    /\ dups' \in SortBySamePerson(cand_spelling_dups \o special_dups)
    /\ rep_dups' \in ReportedDuplicates(dups')
    /\ pc' = "done"
    /\ UNCHANGED <<nameVars, mergeVars, dbVars, csv, cand_elecs, cands, cand_spelling_dups, special_dups>>

NextDup ==
    \/ LoadCandidates
    \/ PotentialDuplicates
    \/ SpecialCases
    \/ SpecialCasesIndexError
    \/ WriteReports

SpecDup == InitDup /\ [][NextDup]_vars

(***************************************************************************)
(* Claims about find_dup_candidates.                                       *)
(***************************************************************************)
SpellingDone == pc \in {"special", "report", "done", "IndexError"}

(***************************************************************************)
(* C4: the spelling detector is exhaustive: every unordered pair of        *)
(* distinct candidate ids of the universe whose names have a similarity    *)
(* ratio above 90 is in the output of potential_duplicates.                *)
(***************************************************************************)
SpellingDetectorIsExhaustive ==
    SpellingDone =>
        \A i, j \in DOMAIN cands :
            (/\ cands[i].candidate_id # cands[j].candidate_id
             /\ fuzz_ratio(cands[i].name, cands[j].name) > 90)
            => \E k \in DOMAIN cand_spelling_dups :
                  {cand_spelling_dups[k].id_1, cand_spelling_dups[k].id_2}
                      = {cands[i].candidate_id, cands[j].candidate_id}

EmptyUniverseCompletes ==
    csv = <<>> =>
        /\ pc # "IndexError"
        /\ SpellingDone => cand_spelling_dups = <<>>
        /\ pc \in {"report", "done"} => special_dups = <<>>
        /\ pc = "done" => (dups = <<>> /\ rep_dups = <<>>)

(***************************************************************************)
(* C10: every row of transform_for_report has id_pref equal to the input   *)
(* row's pref_id and id_dup the other id of the pair, and the name,        *)
(* office, district and city_town of each side are those of its id.        *)
(***************************************************************************)
\* the row of the universe with a candidate id
CandRow(id) == CHOOSE r \in Range(cands) : r.candidate_id = id

SideIs(id, name, office, district, city_town) ==
    /\ name = CandRow(id).name
    /\ office = CandRow(id).office
    /\ district = CandRow(id).district
    /\ city_town = CandRow(id).city_town

CutoffDate == 20160101

OnOrAfterCutoff(date) == date >= CutoffDate

\* the query without its NOT EXISTS clause
NoElectionBetweenIgnored(ge, e1, e2) == TRUE

\* NOT EXISTS (SELECT 1 FROM general_election e3 WHERE ...)
NoElectionBetween(ge, e1, e2) ==
    ~ \E e3 \in Range(ge) :
          /\ e3.district_id = e1.district_id
          /\ e3.office_id = e1.office_id
          /\ e3.election_date > e1.election_date
          /\ e3.election_date < e2.election_date

\* the join conditions of the CTE consecutive_winners
IsConsecutiveWinners(ge, e1, c1, e2, c2) ==
    /\ e1.election_id = c1.election_id /\ c1.is_winner = 1
    /\ e1.district_id = e2.district_id
    /\ e1.office_id = e2.office_id
    /\ e2.election_date > e1.election_date
    /\ e2.election_id = c2.election_id /\ c2.is_winner = 1
    /\ NoElectionBetween(ge, e1, e2)

\* the SELECT list of the CTE
ConsecutiveWinnersRow(e1, c1, e2, c2) ==
    [district_id |-> e1.district_id, office |-> e1.office,
     election_1 |-> e1.election_date, election_2 |-> e2.election_date,
     id_1 |-> c1.candidate_id, name_1 |-> c1.name,
     last_name_1 |-> c1.last_name, city_1 |-> c1.city_town,
     id_2 |-> c2.candidate_id, name_2 |-> c2.name,
     last_name_2 |-> c2.last_name, city_2 |-> c2.city_town,
     is_incumbent |-> c2.is_incumbent]

\* the WHERE clause of the outer SELECT
IsSuspectRow(row) ==
    /\ row.id_1 # row.id_2
    /\ row.last_name_1 # "NULL" /\ row.last_name_1 = row.last_name_2
    /\ (row.city_1 = row.city_2 \/ row.city_1 = "NULL" \/ row.city_2 = "NULL")
    /\ row.is_incumbent = 0
    /\ OnOrAfterCutoff(row.election_2)

\* the rows the query selects
ConsecutiveWinnerQuery(ge, ec) ==
    {row \in {ConsecutiveWinnersRow(q[1], q[2], q[3], q[4]) :
                q \in {t \in Range(ge) \X Range(ec) \X Range(ge) \X Range(ec) :
                          IsConsecutiveWinners(ge, t[1], t[2], t[3], t[4])}} :
        IsSuspectRow(row)}

\* ORDER BY election_2 DESC: rows of one date come in an order SQL leaves open
DescendingElection2(df) ==
    \A i, j \in DOMAIN df : i < j => df[i].election_2 >= df[j].election_2

\* df[df['names_match']] after df['names_match'] = df.apply(...)
RECURSIVE KeepNameMatches(_)
KeepNameMatches(df) ==
    IF df = <<>> THEN <<>>
    ELSE IF names_match_with_abbreviation(Head(df).name_1, Head(df).name_2)
         THEN <<Head(df) @@ [names_match |-> TRUE]>> \o KeepNameMatches(Tail(df))
         ELSE KeepNameMatches(Tail(df))

\* the tables find_consecutive_winner_duplicates can return; a query without
\* rows gives a table without rows
find_consecutive_winner_duplicates(ge, ec) ==
    {KeepNameMatches(df) :
        df \in {o \in Orderings(ConsecutiveWinnerQuery(ge, ec)) : DescendingElection2(o)}}

(***************************************************************************)
(* The databases the detector is run on: three elections, each with one    *)
(* candidate row.                                                          *)
(***************************************************************************)
ElectionDates == {20141104, 20151103, 20160101}

\* (district_id, office_id); OFFICE_ID has State Rep 8 and State Senate 9
Races == {<<7, 8>>, <<12, 8>>, <<7, 9>>}

OfficeName(office_id) == IF office_id = 8 THEN "State Rep" ELSE "State Senate"

DanJRyanSr == <<"D","a","n"," ","J","."," ","R","y","a","n"," ","S","r">>

\* the candidate records: (candidate_id, name, last_name, city_town)
CandidateRecords ==
    {<<1, DanJRyan, "Ryan", "Boston">>,
     <<2, DanJosephRyan, "Ryan", "NULL">>,
     <<3, AnnRyan, "Ryan", "Boston">>,
     <<4, DanJRyan, "Ryan", "Salem">>,
     <<5, DanJRyanSr, "Ryan Sr", "Boston">>}

\* (is_winner, is_incumbent)
CandidateStatus == {<<0, 0>>, <<1, 0>>, <<1, 1>>}

Election(id, race, date) ==
    [election_id |-> id, district_id |-> race[1], office_id |-> race[2],
     office |-> OfficeName(race[2]), election_date |-> date]

ElectionCandidate(election_id, record, status) ==
    [election_id |-> election_id, candidate_id |-> record[1], name |-> record[2],
     last_name |-> record[3], city_town |-> record[4],
     is_winner |-> status[1], is_incumbent |-> status[2]]

InitDb ==
    /\ pc = "query"
    /\ NamesIdle
    /\ DupIdle
    /\ \E d1 \in ElectionDates, d2 \in ElectionDates, d3 \in ElectionDates, race2 \in Races :
          general_election = <<Election(1, <<7, 8>>, d1), Election(2, race2, d2),
                               Election(3, <<7, 8>>, d3)>>
    /\ \E r1 \in CandidateRecords, r2 \in CandidateRecords, r3 \in CandidateRecords,
          s1 \in CandidateStatus, s2 \in CandidateStatus, s3 \in CandidateStatus :
          election_candidate = <<ElectionCandidate(1, r1, s1), ElectionCandidate(2, r2, s2),
                                 ElectionCandidate(3, r3, s3)>>
    /\ consecutive_df = None
    /\ same_district_df = None
    /\ results = None
    /\ output = None

\* main: consecutive_df = find_consecutive_winner_duplicates(db_path)
FindConsecutiveWinnerDuplicates ==
    /\ pc = "query"
    /\ consecutive_df' \in
          find_consecutive_winner_duplicates(general_election, election_candidate)
    /\ pc' = "queried"
    /\ UNCHANGED <<nameVars, dupVars, dbVars, same_district_df, results, output>>

NextDb == FindConsecutiveWinnerDuplicates

SpecDb == InitDb /\ [][NextDb]_vars

(***************************************************************************)
(* C6: find_consecutive_winner_duplicates emits the pair (id_1, id_2)      *)
(* exactly when id_1 won an election e1 and id_2 won an election e2 of the *)
(* same district and office, e1 is before e2 with no election of that      *)
(* district and office strictly between, the ids differ, the last names    *)
(* are equal, city_town is equal or missing on a side, the second winner   *)
(* has is_incumbent = 0, e2 is on or after 2016-01-01 and the names match. *)
(***************************************************************************)
Adjacent(e1, e2) ==
    /\ e1.district_id = e2.district_id
    /\ e1.office_id = e2.office_id
    /\ e1.election_date < e2.election_date
    /\ \A e \in Range(general_election) :
          (e.district_id = e1.district_id /\ e.office_id = e1.office_id)
              => (e.election_date <= e1.election_date \/ e.election_date >= e2.election_date)

Winner(c, e) == c.election_id = e.election_id /\ c.is_winner = 1

ExpectedPairs ==
    {<<c1.candidate_id, c2.candidate_id>> :
        <<c1, c2>> \in
            {p \in Range(election_candidate) \X Range(election_candidate) :
                /\ \E e1, e2 \in Range(general_election) :
                      Adjacent(e1, e2) /\ Winner(p[1], e1) /\ Winner(p[2], e2)
                         /\ e2.election_date >= 20160101
                /\ p[1].candidate_id # p[2].candidate_id
                /\ p[1].last_name = p[2].last_name
                /\ (p[1].city_town = p[2].city_town
                      \/ "NULL" \in {p[1].city_town, p[2].city_town})
                /\ p[2].is_incumbent = 0
                /\ names_match_with_abbreviation(p[1].name, p[2].name)}}

ConsecutiveWinnerPairsAreExact ==
    pc = "queried" =>
        {<<consecutive_df[i].id_1, consecutive_df[i].id_2>> : i \in DOMAIN consecutive_df}
            = ExpectedPairs

\* a pair is emitted while another winner of the same race, two elections
\* back, is not paired
ConsecutiveWinnerPairsWitness ==
    /\ pc = "queried"
    /\ Len(consecutive_df) = 1
    /\ \A e \in Range(general_election) : e.district_id = 7 /\ e.office_id = 8
    /\ \A i, j \in DOMAIN general_election :
          i # j => general_election[i].election_date # general_election[j].election_date
    /\ \A c \in Range(election_candidate) : c.is_winner = 1 /\ c.is_incumbent = 0
    /\ \A i, j \in DOMAIN election_candidate :
          /\ election_candidate[i].last_name = election_candidate[j].last_name
          /\ names_match_with_abbreviation(election_candidate[i].name,
                                           election_candidate[j].name)
          /\ i # j => election_candidate[i].candidate_id # election_candidate[j].candidate_id

(***************************************************************************)
(* C12: the candidate universe has exactly one row for every candidate_id  *)
(* of the file, and that row is the candidate's most recent participation  *)
(* by election date, the highest election_id among those of that date.     *)
(***************************************************************************)
\* row r is the participation of its candidate that is latest by date, then
\* by election_id
IsMostRecentParticipation(r) ==
    \A o \in Range(csv) :
        o.candidate_id = r.candidate_id =>
            \/ o.election_date < r.election_date
            \/ o.election_date = r.election_date /\ o.election_id <= r.election_id

UniverseIsMostRecentParticipation ==
    pc \in {"spelling", "special", "report", "done", "IndexError"} =>
        /\ \A c \in {r.candidate_id : r \in Range(csv)} :
              Cardinality({p \in DOMAIN cands : cands[p].candidate_id = c}) = 1
        /\ \A p \in DOMAIN cands :
              cands[p] \in Range(csv) /\ IsMostRecentParticipation(cands[p])

====
